---- MODULE Spec2Model ----
(***************************************************************************)
(* Model of watchman's command registry and dispatch pipeline,             *)
(* cmds/reg.cpp: the command table, the capability table, the poison       *)
(* reason, preprocess_command (CLI validation) and dispatch_command        *)
(* (one call per client session, several sessions running concurrently).   *)
(*                                                                         *)
(* A C pointer is modelled as a sequence of length at most one: NULL is    *)
(* the empty sequence and Ptr(x) points at x.                              *)
(***************************************************************************)
EXTENDS Integers, Sequences, FiniteSets, TLC

NULL == <<>>
Ptr(x) == <<x>>
Deref(p) == p[1]

(* ---------------------------- bounds ----------------------------------- *)

\* dispatch_command calls made in a behaviour, all sessions together
MaxCalls == 2

\* registration calls recorded in a behaviour of the starting program
MaxRegs == 3

(* ---------------------------- inputs ----------------------------------- *)

\* the client sessions; c1 is the process owner's, c2 another user's
Sessions == {"c1", "c2"}
IsOwner(s) == s = "c1"

\* json values: element 0 of a command is a string or something else
JString(s) == [type |-> "string", value |-> s]
JInteger(s) == [type |-> "integer", value |-> s]

ArgArrays ==
  { <<>>,
    <<JInteger("42")>>,
    <<JString("nope")>>,
    <<JString("find"), JString("/tmp")>>,
    <<JString("get-pid")>>,
    <<JString("shutdown-server")>> }

\* the bits of watchman_command_handler_def.flags; a mode or a flags word is
\* the set of its bits, 0 is the empty set and (a & b) is the intersection
CMD_CLIENT == "CMD_CLIENT"
CMD_DAEMON == "CMD_DAEMON"
CMD_POISON_IMMUNE == "CMD_POISON_IMMUNE"
CMD_ALLOW_ANY_USER == "CMD_ALLOW_ANY_USER"

\* the modes a caller asks for: none (0), or the mode bit of its context
Modes == { {}, {CMD_CLIENT}, {CMD_DAEMON} }

\* the command definitions the program registers (W_CMD_REG); "find" is
\* registered under two definitions so that a name can be overwritten
Def(name, func, flags, validate) ==
  [name |-> name, func |-> func, flags |-> flags, cli_validate |-> validate]

CommandDefs ==
  { Def("find", "cmd_find", {CMD_DAEMON, CMD_ALLOW_ANY_USER}, TRUE),
    Def("find", "cmd_find_v2", {CMD_CLIENT}, FALSE),
    Def("get-pid", "cmd_get_pid",
        {CMD_DAEMON, CMD_POISON_IMMUNE, CMD_ALLOW_ANY_USER}, FALSE),
    Def("shutdown-server", "cmd_shutdown",
        {CMD_DAEMON, CMD_POISON_IMMUNE}, TRUE) }

\* capabilities registered on their own, not through a command
ExtraCapabilities == {"term-allof", "cmd-trigger"}

\* reasons the error-detection code poisons the daemon with
PoisonReasons == {"disk full"}

\* what a cli_validate callback may leave in *errmsg
ValidatorResults == {NULL, Ptr("wrong number of arguments")}

(* ----------------------------- state ----------------------------------- *)

VARIABLES
  command_funcs,    \* NULL or Ptr(table name -> definition)
  capabilities,     \* NULL or Ptr(set of capability names)
  poisoned_reason,  \* NULL or Ptr(reason)
  process,          \* "running", "exited" (exit(1)) or "crashed"
  stdout,           \* the PDUs written to the process's standard output
  client,           \* per session: struct watchman_client
  frame,            \* per session: the locals of its dispatch_command call
  obs,              \* per session: what its current call did so far
  cli               \* the last preprocess_command call made while starting:
                    \* its array, the command table it read, what the
                    \* validator answered, whether it ended the process

VARIABLES
  history,          \* the registration calls the starting program made, in
                    \* order (recorded in SpecRegistry only)
  help              \* NULL, or the last command list printed: its lines and
                    \* the command table they were printed from

vars == <<command_funcs, capabilities, poisoned_reason, process, stdout,
          client, frame, obs, cli, history, help>>

(* ------------------------- hash tables, json --------------------------- *)

\* w_ht_get on a table that exists: the value under key, or 0 (NULL)
w_ht_get(table, key) ==
  IF key \in DOMAIN table THEN Ptr(table[key]) ELSE NULL

\* w_ht_set: insert, or replace the value already under key
w_ht_set(table, key, val) ==
  [k \in DOMAIN table \cup {key} |-> IF k = key THEN val ELSE table[k]]

json_array_size(args) == Len(args)

\* json_string_value: the string's characters, NULL for any other json value
json_string_value(jstr) ==
  IF jstr.type = "string" THEN Ptr(jstr.value) ELSE NULL

(* ----------------------------- lookup ---------------------------------- *)

\* lookup without the test of the definition's flags against the mode
lookup_NoModeTest(table, args, mode) ==
  IF json_array_size(args) = 0
  THEN [def |-> NULL,
        errmsg |-> Ptr("invalid command (expected an array with some elements!)")]
  ELSE
    LET cmd_name == json_string_value(args[1]) IN
    IF cmd_name = NULL
    THEN [def |-> NULL,
          errmsg |->
            Ptr("invalid command: expected element 0 to be the command name")]
    ELSE
      LET def == w_ht_get(table, Deref(cmd_name)) IN
      IF def # NULL
      THEN [def |-> def, errmsg |-> NULL]
      ELSE IF mode # {}
           THEN [def |-> NULL,
                 errmsg |-> Ptr("unknown command " \o Deref(cmd_name))]
           ELSE [def |-> NULL, errmsg |-> NULL]

\* lookup that reports a malformed array only in a strict mode, the way it
\* reports an unknown command
lookup_MalformedTolerant(table, args, mode) ==
  IF json_array_size(args) = 0
  THEN [def |-> NULL,
        errmsg |-> IF mode # {}
                   THEN Ptr("invalid command (expected an array with some elements!)")
                   ELSE NULL]
  ELSE
    LET cmd_name == json_string_value(args[1]) IN
    IF cmd_name = NULL
    THEN [def |-> NULL,
          errmsg |->
            IF mode # {}
            THEN Ptr("invalid command: expected element 0 to be the command name")
            ELSE NULL]
    ELSE
      LET def == w_ht_get(table, Deref(cmd_name)) IN
      IF def # NULL
      THEN IF mode # {} /\ (Deref(def).flags \cap mode) = {}
           THEN [def |-> NULL,
                 errmsg |-> Ptr("command " \o Deref(cmd_name)
                                \o " not available in this mode")]
           ELSE [def |-> def, errmsg |-> NULL]
      ELSE IF mode # {}
           THEN [def |-> NULL,
                 errmsg |-> Ptr("unknown command " \o Deref(cmd_name))]
           ELSE [def |-> NULL, errmsg |-> NULL]

\* lookup(args, &errmsg, mode): the definition found (or nullptr) and what
\* it left in *errmsg, which the callers initialise to NULL
lookup(table, args, mode) ==
  IF json_array_size(args) = 0
  THEN [def |-> NULL,
        errmsg |-> Ptr("invalid command (expected an array with some elements!)")]
  ELSE
    LET cmd_name == json_string_value(args[1]) IN
    IF cmd_name = NULL
    THEN [def |-> NULL,
          errmsg |->
            Ptr("invalid command: expected element 0 to be the command name")]
    ELSE
      LET def == w_ht_get(table, Deref(cmd_name)) IN
      IF def # NULL
      THEN IF mode # {} /\ (Deref(def).flags \cap mode) = {}
           THEN [def |-> NULL,
                 errmsg |-> Ptr("command " \o Deref(cmd_name)
                                \o " not available in this mode")]
           ELSE [def |-> def, errmsg |-> NULL]
      ELSE IF mode # {}
           THEN [def |-> NULL,
                 errmsg |-> Ptr("unknown command " \o Deref(cmd_name))]
           ELSE [def |-> NULL, errmsg |-> NULL]

(* ------------------------ the command list ----------------------------- *)

\* the bytes of the strings the model uses as names, for strcmp
Bytes(str) ==
  CASE str = "find" -> <<102, 105, 110, 100>>
    [] str = "get-pid" -> <<103, 101, 116, 45, 112, 105, 100>>
    [] str = "shutdown-server" ->
         <<115, 104, 117, 116, 100, 111, 119, 110, 45,
           115, 101, 114, 118, 101, 114>>

\* strcmp on two byte strings: negative, zero or positive
RECURSIVE strcmp_bytes(_, _)
strcmp_bytes(a, b) ==
  IF a = << >> /\ b = << >> THEN 0
  ELSE IF a = << >> THEN 0 - b[1]
  ELSE IF b = << >> THEN a[1]
  ELSE IF a[1] # b[1] THEN a[1] - b[1]
  ELSE strcmp_bytes(Tail(a), Tail(b))

\* compare_def with its arguments swapped
compare_def_Swapped(a, b) == strcmp_bytes(Bytes(b.name), Bytes(a.name))

\* compare_def(A, B): strcmp of the two definitions' names
compare_def(a, b) == strcmp_bytes(Bytes(a.name), Bytes(b.name))

\* qsort(defs, n, sizeof(*defs), compare_def): the array put in the order
\* of compare_def (by insertion; the names of a table are distinct, so every
\* sorting algorithm gives this array)
RECURSIVE InsertDef(_, _)
InsertDef(sorted, def) ==
  IF sorted = << >> THEN <<def>>
  ELSE IF compare_def(def, sorted[1]) < 0 THEN <<def>> \o sorted
  ELSE <<sorted[1]>> \o InsertDef(Tail(sorted), def)

RECURSIVE qsort(_)
qsort(defs) ==
  IF defs = << >> THEN << >>
  ELSE InsertDef(qsort(Tail(defs)), defs[1])

\* the orders in which w_ht_first / w_ht_next may walk a table: any
IterationOrders(table) ==
  { order \in [1 .. Cardinality(DOMAIN table) -> DOMAIN table] :
      \A i, j \in DOMAIN order : i # j => order[i] # order[j] }

\* print_command_list_for_help: the lines printed under "Available
\* commands:", the table walked in the given order
CommandList(table, order) ==
  LET defs == [i \in DOMAIN order |-> table[order[i]]]
      sorted == IF Len(defs) > 0 THEN qsort(defs) ELSE defs
  IN [i \in DOMAIN sorted |-> sorted[i].name]

(* ------------------------ registration --------------------------------- *)

\* w_capability_register(name) applied to the capability table
w_capability_register(caps, name) ==
  Ptr((IF caps = NULL THEN {} ELSE Deref(caps)) \cup {name})

\* w_capability_supported(name); the table exists once anything registered
w_capability_supported(caps, name) == name \in Deref(caps)

\* the table made anew at every call, "if (!command_funcs)" left out
RegisterTable_FreshTable(funcs, def) == Ptr(w_ht_set(<< >>, def.name, def))

\* w_register_command(defs): the command table after the call
RegisterTable(funcs, def) ==
  Ptr(w_ht_set(IF funcs = NULL THEN << >> ELSE Deref(funcs), def.name, def))

\* the capability name w_register_command builds with snprintf
CapName(def) == "cmd-" \o def.name

(* --------------------------- responses --------------------------------- *)

\* what printf's "%s" makes of its argument.  A NULL argument is undefined
\* behaviour: the C library prints "(null)" or the process faults (NULL here)
FormatString(p) ==
  IF p = NULL THEN {Ptr("(null)"), NULL} ELSE {p}

\* the message of the permission failure
OwnerMessage(def) ==
  "you must be the process owner to execute '" \o def.name \o "'"

\* the error PDU preprocess_command packs with json_pack
ErrorEnvelope(errmsg) ==
  [error |-> errmsg, version |-> "PACKAGE_VERSION", cli_validated |-> TRUE]

\* the response not sent
send_error_response_Dropped(responses, text) == responses

\* send_error_response(client, fmt, ...): one response, with this text, is
\* queued for the client; responses is what that client was sent before
send_error_response(responses, text) == Append(responses, text)

(* -------------------------- dispatch steps ----------------------------- *)

\* result initialised the wrong way
InitialResult_True == TRUE

\* "bool result = false;"
InitialResult == FALSE

\* the tests without the poison test
PermissionCheck_NoPoison(reason, is_owner, flags) ==
  IF ~is_owner /\ CMD_ALLOW_ANY_USER \notin flags THEN "denied"
  ELSE "execute"

\* the tests without the owner test
PermissionCheck_NoOwner(reason, is_owner, flags) ==
  IF reason # NULL /\ CMD_POISON_IMMUNE \notin flags THEN "poisoned"
  ELSE "execute"

\* the owner test made before the poison test
PermissionCheck_OwnerFirst(reason, is_owner, flags) ==
  IF ~is_owner /\ CMD_ALLOW_ANY_USER \notin flags THEN "denied"
  ELSE IF reason # NULL /\ CMD_POISON_IMMUNE \notin flags THEN "poisoned"
  ELSE "execute"

\* the two tests between lookup and the handler: "poisoned", "denied" or
\* "execute"
PermissionCheck(reason, is_owner, flags) ==
  IF reason # NULL /\ CMD_POISON_IMMUNE \notin flags THEN "poisoned"
  ELSE IF ~is_owner /\ CMD_ALLOW_ANY_USER \notin flags THEN "denied"
  ELSE "execute"

\* the name of the perf sample
SampleName(def) == "dispatch_command:" \o def.name

IdleFrame ==
  [pc |-> "idle", args |-> << >>, mode |-> {}, def |-> NULL, errmsg |-> NULL,
   result |-> FALSE]

NoObs ==
  [calls |-> 0, responses |-> << >>, invoked |-> << >>, logged |-> << >>,
   finished |-> NULL, refs |-> 0]

Init ==
  /\ command_funcs = NULL
  /\ capabilities = NULL
  /\ poisoned_reason = NULL
  /\ process = "running"
  /\ stdout = << >>
  /\ client = [s \in Sessions |->
                 [client_is_owner |-> IsOwner(s), current_command |-> NULL,
                  perf_sample |-> NULL]]
  /\ frame = [s \in Sessions |-> IdleFrame]
  /\ obs = [s \in Sessions |-> NoObs]
  /\ cli = NULL
  /\ history = << >>
  /\ help = NULL

RECURSIVE SumCalls(_, _)
SumCalls(o, S) ==
  IF S = {} THEN 0
  ELSE LET s == CHOOSE x \in S : TRUE IN o[s].calls + SumCalls(o, S \ {s})

\* the dispatch_command calls made so far
TotalCalls == SumCalls(obs, Sessions)

\* no client is being served yet
Startup == TotalCalls = 0

\* what w_register_command(defs) does to the two tables
RegisterEffect(def) ==
  /\ command_funcs' = RegisterTable(command_funcs, def)
  /\ capabilities' = w_capability_register(capabilities, CapName(def))
  /\ UNCHANGED <<poisoned_reason, process, stdout, client, frame, obs, cli>>

\* what w_capability_register(name), called on its own, does
CapabilityEffect(name) ==
  /\ capabilities' = w_capability_register(capabilities, name)
  /\ UNCHANGED <<command_funcs, poisoned_reason, process, stdout, client,
                 frame, obs, cli>>

\* w_register_command(defs), run while the program starts
Register(def) ==
  /\ process = "running"
  /\ Startup
  /\ RegisterEffect(def)
  /\ UNCHANGED <<history, help>>

\* w_capability_register(name) called for a capability of its own
CapabilityRegister(name) ==
  /\ process = "running"
  /\ Startup
  /\ CapabilityEffect(name)
  /\ UNCHANGED <<history, help>>

\* the same two calls, each recorded in history
RegisterCommand(def) ==
  /\ process = "running"
  /\ Startup
  /\ Len(history) < MaxRegs
  /\ RegisterEffect(def)
  /\ history' = Append(history, [op |-> "command", name |-> def.name,
                                 def |-> Ptr(def)])
  /\ UNCHANGED help

RegisterCapability(name) ==
  /\ process = "running"
  /\ Startup
  /\ Len(history) < MaxRegs
  /\ CapabilityEffect(name)
  /\ history' = Append(history, [op |-> "capability", name |-> name,
                                 def |-> NULL])
  /\ UNCHANGED help

\* print_command_list_for_help(where); the table exists (w_ht_size is not
\* handed NULL) and is walked in any order
PrintCommandList(order) ==
  /\ process = "running"
  /\ Startup
  /\ command_funcs # NULL
  /\ help' = Ptr([lines |-> CommandList(Deref(command_funcs), order),
                  funcs |-> command_funcs,
                  walked |-> order])
  /\ UNCHANGED <<command_funcs, capabilities, poisoned_reason, process,
                 stdout, client, frame, obs, cli, history>>

\* the error-detection code sets poisoned_reason; the first reason stays
Poison(reason) ==
  /\ process = "running"
  /\ poisoned_reason = NULL
  /\ poisoned_reason' = Ptr(reason)
  /\ UNCHANGED <<command_funcs, capabilities, process, stdout, client, frame,
                 obs, cli,
                 history, help>>

\* "if (!errmsg && def->cli_validate)", reached when lookup gave a
\* definition or an error message
CallsValidator(found) ==
  /\ ~(found.def = NULL /\ found.errmsg = NULL)
  /\ found.errmsg = NULL
  /\ Deref(found.def).cli_validate

\* the validator called and its message dropped
PreprocessErrmsg_ValidatorIgnored(found, verr) ==
  IF found.def = NULL /\ found.errmsg = NULL THEN NULL
  ELSE found.errmsg

\* errmsg where preprocess_command tests it; verr is what the validator
\* leaves in it
PreprocessErrmsg(found, verr) ==
  IF found.def = NULL /\ found.errmsg = NULL THEN NULL
  ELSE IF CallsValidator(found) THEN verr
  ELSE found.errmsg

\* preprocess_command(args, output_pdu), which the command line path runs
\* before any session exists; verr is what the validator, when it is called,
\* leaves in errmsg
Preprocess(args, verr) ==
  /\ process = "running"
  /\ Startup
  /\ command_funcs # NULL
  /\ LET found == lookup(Deref(command_funcs), args, {})
         errmsg == PreprocessErrmsg(found, verr)
         call == [args |-> args, funcs |-> command_funcs, exited |-> FALSE,
                  validated |-> IF CallsValidator(found) THEN Ptr(verr)
                                ELSE NULL]
     IN IF errmsg # NULL
        THEN /\ stdout' = Append(stdout, ErrorEnvelope(Deref(errmsg)))
             /\ process' = "exited"
             /\ cli' = Ptr([call EXCEPT !.exited = TRUE])
        ELSE /\ UNCHANGED <<process, stdout>>
             /\ cli' = Ptr(call)
  /\ UNCHANGED <<command_funcs, capabilities, poisoned_reason, client, frame,
                 obs, history, help>>

\* dispatch_command entry: the locals, and the reference to the command
\* (json_incref, counted in refs).  Commands are looked up only once the
\* command table exists: w_ht_get is never handed the NULL table.
DispatchStart(s, args, mode) ==
  /\ process = "running"
  /\ command_funcs # NULL
  /\ frame[s].pc \in {"idle", "returned"}
  /\ TotalCalls < MaxCalls
  /\ client' = [client EXCEPT ![s].current_command = Ptr(args)]
  /\ frame' = [frame EXCEPT ![s] =
       [pc |-> "Lookup", args |-> args, mode |-> mode, def |-> NULL,
        errmsg |-> NULL, result |-> InitialResult]]
  /\ obs' = [obs EXCEPT ![s] =
       [calls |-> @.calls + 1, responses |-> << >>, invoked |-> << >>,
        logged |-> << >>, finished |-> NULL, refs |-> @.refs + 1]]
  /\ cli' = NULL
  /\ UNCHANGED <<command_funcs, capabilities, poisoned_reason, process,
                 stdout, history, help>>

\* "def = lookup(args, &errmsg, mode); if (!def) { send_error_response ..."
Lookup(s) ==
  /\ process = "running"
  /\ frame[s].pc = "Lookup"
  /\ LET found == lookup(Deref(command_funcs), frame[s].args, frame[s].mode)
     IN IF found.def # NULL
        THEN /\ frame' = [frame EXCEPT ![s].def = found.def,
                                       ![s].errmsg = found.errmsg,
                                       ![s].pc = "PermissionCheck"]
             /\ UNCHANGED <<obs, process>>
        ELSE \E text \in FormatString(found.errmsg) :
               IF text = NULL
               THEN /\ process' = "crashed"
                    /\ frame' = [frame EXCEPT ![s].errmsg = found.errmsg]
                    /\ UNCHANGED obs
               ELSE /\ obs' = [obs EXCEPT ![s].responses =
                                 send_error_response(@, Deref(text))]
                    /\ frame' = [frame EXCEPT ![s].errmsg = found.errmsg,
                                              ![s].pc = "done"]
                    /\ UNCHANGED process
  /\ UNCHANGED <<command_funcs, capabilities, poisoned_reason, stdout, client,
                 cli, history, help>>

\* the poison test and the owner test; the owner test's failure returns
\* false at once, without the code under the label done
Permission(s) ==
  /\ process = "running"
  /\ frame[s].pc = "PermissionCheck"
  /\ LET def == Deref(frame[s].def)
         verdict == PermissionCheck(poisoned_reason, client[s].client_is_owner,
                                    def.flags)
     IN IF verdict = "poisoned"
        THEN /\ obs' = [obs EXCEPT ![s].responses =
                          send_error_response(@, Deref(poisoned_reason))]
             /\ frame' = [frame EXCEPT ![s].pc = "done"]
        ELSE IF verdict = "denied"
        THEN /\ obs' = [obs EXCEPT ![s].responses =
                          send_error_response(@, OwnerMessage(def))]
             /\ frame' = [frame EXCEPT ![s].pc = "returned",
                                       ![s].result = FALSE]
        ELSE /\ frame' = [frame EXCEPT ![s].pc = "Execute"]
             /\ UNCHANGED obs
  /\ UNCHANGED <<command_funcs, capabilities, poisoned_reason, process,
                 stdout, client, cli, history, help>>

\* the handler called with client->perf_sample left unset
Execute_NoSample(s) ==
  /\ process = "running"
  /\ frame[s].pc = "Execute"
  /\ LET def == Deref(frame[s].def)
     IN /\ frame' = [frame EXCEPT ![s].result = TRUE, ![s].pc = "handler"]
        /\ obs' = [obs EXCEPT ![s].invoked =
             Append(@, [func |-> def.func, client |-> s,
                        args |-> frame[s].args,
                        current_command |-> client[s].current_command,
                        perf_sample |-> client[s].perf_sample])]
  /\ UNCHANGED <<command_funcs, capabilities, poisoned_reason, process,
                 stdout, client, cli, history, help>>

\* the handler called under a lock that all sessions share
Execute_GlobalLock(s) ==
  /\ process = "running"
  /\ frame[s].pc = "Execute"
  /\ \A t \in Sessions \ {s} : frame[t].pc # "handler"
  /\ LET def == Deref(frame[s].def)
         sample == Ptr(SampleName(def))
     IN /\ client' = [client EXCEPT ![s].perf_sample = sample]
        /\ frame' = [frame EXCEPT ![s].result = TRUE, ![s].pc = "handler"]
        /\ obs' = [obs EXCEPT ![s].invoked =
             Append(@, [func |-> def.func, client |-> s,
                        args |-> frame[s].args,
                        current_command |-> client[s].current_command,
                        perf_sample |-> sample])]
  /\ UNCHANGED <<command_funcs, capabilities, poisoned_reason, process,
                 stdout, cli, history, help>>

\* the perf sample is opened and the handler is called
Execute(s) ==
  /\ process = "running"
  /\ frame[s].pc = "Execute"
  /\ LET def == Deref(frame[s].def)
         sample == Ptr(SampleName(def))
     IN /\ client' = [client EXCEPT ![s].perf_sample = sample]
        /\ frame' = [frame EXCEPT ![s].result = TRUE, ![s].pc = "handler"]
        /\ obs' = [obs EXCEPT ![s].invoked =
             Append(@, [func |-> def.func, client |-> s,
                        args |-> frame[s].args,
                        current_command |-> client[s].current_command,
                        perf_sample |-> sample])]
  /\ UNCHANGED <<command_funcs, capabilities, poisoned_reason, process,
                 stdout, cli, history, help>>

\* the sample logged whatever sample.finish() returned
LogSample_Always(logged, finished, name, args) ==
  Append(logged, [name |-> name, args |-> args])

\* "if (sample.finish()) { ... add_meta("args", args); sample.log(); }":
\* the operational log after it.  The debug line of the else branch is not
\* a sample record.
LogSample(logged, finished, name, args) ==
  IF finished THEN Append(logged, [name |-> name, args |-> args])
  ELSE logged

\* the handler returns; slow is whether sample.finish() found the wall time
\* over the threshold.  The reference taken for add_meta belongs to the
\* sample, which ends with its scope, and is not counted in refs.
HandlerReturn(s, slow) ==
  /\ process = "running"
  /\ frame[s].pc = "handler"
  /\ frame' = [frame EXCEPT ![s].pc = "done"]
  /\ obs' = [obs EXCEPT
       ![s].finished = Ptr(slow),
       ![s].logged = LogSample(@, slow, Deref(client[s].perf_sample),
                               frame[s].args)]
  /\ UNCHANGED <<command_funcs, capabilities, poisoned_reason, process,
                 stdout, client, cli, history, help>>

\* the code under the label done, clearing poisoned_reason as well
Done_Heals(s) ==
  /\ process = "running"
  /\ frame[s].pc = "done"
  /\ client' = [client EXCEPT ![s].current_command = NULL,
                              ![s].perf_sample = NULL]
  /\ frame' = [frame EXCEPT ![s].pc = "returned", ![s].errmsg = NULL]
  /\ obs' = [obs EXCEPT ![s].refs = @ - 1]
  /\ poisoned_reason' = NULL
  /\ UNCHANGED <<command_funcs, capabilities, process,
                 stdout, cli, history, help>>

\* the code under the label done
Done(s) ==
  /\ process = "running"
  /\ frame[s].pc = "done"
  /\ client' = [client EXCEPT ![s].current_command = NULL,
                              ![s].perf_sample = NULL]
  /\ frame' = [frame EXCEPT ![s].pc = "returned", ![s].errmsg = NULL]
  /\ obs' = [obs EXCEPT ![s].refs = @ - 1]
  /\ UNCHANGED <<command_funcs, capabilities, poisoned_reason, process,
                 stdout, cli, history, help>>

Next ==
  \/ \E def \in CommandDefs : Register(def)
  \/ \E reason \in PoisonReasons : Poison(reason)
  \/ \E args \in ArgArrays, verr \in ValidatorResults : Preprocess(args, verr)
  \/ \E s \in Sessions, args \in ArgArrays, mode \in Modes :
       DispatchStart(s, args, mode)
  \/ \E s \in Sessions : Lookup(s)
  \/ \E s \in Sessions : Permission(s)
  \/ \E s \in Sessions : Execute(s)
  \/ \E s \in Sessions, slow \in BOOLEAN : HandlerReturn(s, slow)
  \/ \E s \in Sessions : Done(s)

Spec == Init /\ [][Next]_vars

\* the program while it starts: the registrations alone, commands and
\* capabilities in any order
NextRegistry ==
  \/ \E def \in CommandDefs : RegisterCommand(def)
  \/ \E name \in ExtraCapabilities : RegisterCapability(name)
  \/ \E order \in IterationOrders(
                    IF command_funcs = NULL THEN << >>
                    ELSE Deref(command_funcs)) : PrintCommandList(order)

SpecRegistry == Init /\ [][NextRegistry]_vars

(* ===================== the claims' vocabulary ========================== *)

Returned(s) == frame[s].pc = "returned"
PastChecks(s) == frame[s].pc \in {"done", "returned"}
HandlerInvoked(s) == obs[s].invoked # << >>
Malformed(args) == args = << >> \/ args[1].type # "string"
CommandName(args) == args[1].value
Registered(args) ==
  /\ ~Malformed(args)
  /\ command_funcs # NULL
  /\ CommandName(args) \in DOMAIN Deref(command_funcs)
RegisteredDef(args) == Deref(command_funcs)[CommandName(args)]
ModeAllows(args, mode) ==
  mode = {} \/ RegisteredDef(args).flags \cap mode # {}
Immune(args) == CMD_POISON_IMMUNE \in RegisteredDef(args).flags
AnyUser(args) == CMD_ALLOW_ANY_USER \in RegisteredDef(args).flags
Rejected(s) == ~frame[s].result /\ ~HandlerInvoked(s)
\* session s makes its poison and owner tests in this step
PermissionStep(s) ==
  frame[s].pc = "PermissionCheck" /\ frame'[s].pc # "PermissionCheck"
MalformedMessages ==
  { "invalid command (expected an array with some elements!)",
    "invalid command: expected element 0 to be the command name" }
ModeMessage(args) ==
  "command " \o CommandName(args) \o " not available in this mode"
UnknownMessage(args) == "unknown command " \o CommandName(args)
DeniedMessage(args) ==
  "you must be the process owner to execute '" \o CommandName(args) \o "'"

(* ============================== C1 ===================================== *)

\* C1: when dispatch_command has returned, its result is true if and only
\* if the handler was invoked during that call; every rejection (malformed
\* array, unknown command in a strict mode, mode violation, a command of
\* another user's session without CMD_ALLOW_ANY_USER, and any call that
\* sent an error response, the poisoned one included) returned false with
\* no handler invoked.
C1_TrueIffHandlerInvoked ==
  \A s \in Sessions :
    /\ Returned(s) => (frame[s].result <=> HandlerInvoked(s))
    /\ HandlerInvoked(s) => frame[s].result
    /\ (Returned(s) /\ obs[s].responses # << >>) => Rejected(s)
    /\ (/\ Returned(s)
        /\ \/ Malformed(frame[s].args)
           \/ ~Registered(frame[s].args) /\ frame[s].mode # {}
           \/ /\ Registered(frame[s].args)
              /\ \/ ~ModeAllows(frame[s].args, frame[s].mode)
                 \/ ~client[s].client_is_owner /\ ~AnyUser(frame[s].args))
       => Rejected(s)

\* one session's call ran its handler and returned true, the other's was
\* rejected and returned false
C1_Witness ==
  /\ Returned("c1") /\ frame["c1"].result /\ HandlerInvoked("c1")
  /\ Returned("c2") /\ ~frame["c2"].result /\ obs["c2"].responses # << >>

(* ============================== C2 ===================================== *)

\* C2: a dispatch of a name that is not registered returns false with no
\* handler invoked; with mode 0 it sends no error response, with a strict
\* mode exactly the unknown command error.
C2_UnknownCommand ==
  \A s \in Sessions :
    (Returned(s) /\ ~Malformed(frame[s].args) /\ ~Registered(frame[s].args))
    => /\ Rejected(s)
       /\ obs[s].responses =
            IF frame[s].mode = {} THEN << >>
            ELSE <<UnknownMessage(frame[s].args)>>

(* ============================== C3 ===================================== *)

\* C3 as stated: whenever poisoned_reason is set, a dispatch of a registered
\* command without CMD_POISON_IMMUNE ends, at the step that decides it, with
\* the poison reason as its one error response, false as its result and no
\* handler invoked; a registered command with CMD_POISON_IMMUNE that passes
\* the mode and owner tests has its handler invoked.
C3_Stated ==
  /\ [][\A s \in Sessions :
          (/\ poisoned_reason # NULL
           /\ frame[s].pc \in {"Lookup", "PermissionCheck"}
           /\ frame'[s].pc \in {"Execute", "done", "returned"}
           /\ Registered(frame[s].args)
           /\ ~Immune(frame[s].args))
          => /\ frame'[s].pc = "done"
             /\ ~frame'[s].result
             /\ obs'[s].invoked = << >>
             /\ obs'[s].responses = <<Deref(poisoned_reason)>>]_vars
  /\ [](\A s \in Sessions :
          (/\ Returned(s)
           /\ Registered(frame[s].args)
           /\ Immune(frame[s].args)
           /\ ModeAllows(frame[s].args, frame[s].mode)
           /\ (client[s].client_is_owner \/ AnyUser(frame[s].args)))
          => HandlerInvoked(s) /\ frame[s].result)

\* C3, amended: the same for a registered command that passed lookup (the
\* mode is 0 or the flags have a bit of the mode): with poisoned_reason set
\* and CMD_POISON_IMMUNE lacking, the step that makes the poison test leaves
\* the poison reason as the call's one error response, the result false and
\* no handler invoked, and the call goes to its cleanup; with
\* CMD_POISON_IMMUNE (and the owner test passed) the handler is invoked
\* whatever poisoned_reason is.
C3_PoisonedRejected ==
  /\ [][\A s \in Sessions :
          (/\ poisoned_reason # NULL
           /\ PermissionStep(s)
           /\ Registered(frame[s].args)
           /\ ModeAllows(frame[s].args, frame[s].mode)
           /\ ~Immune(frame[s].args))
          => /\ frame'[s].pc = "done"
             /\ ~frame'[s].result
             /\ obs'[s].invoked = << >>
             /\ obs'[s].responses = <<Deref(poisoned_reason)>>]_vars
  /\ [](\A s \in Sessions :
          (/\ Returned(s)
           /\ Registered(frame[s].args)
           /\ Immune(frame[s].args)
           /\ ModeAllows(frame[s].args, frame[s].mode)
           /\ (client[s].client_is_owner \/ AnyUser(frame[s].args)))
          => HandlerInvoked(s) /\ frame[s].result)

\* poisoned: the owner's call of a command without the immunity returned
\* false with the poison reason, and a call of an immune command ran its
\* handler
C3_Witness ==
  /\ poisoned_reason = Ptr("disk full")
  /\ Returned("c1") /\ Registered(frame["c1"].args)
  /\ ~Immune(frame["c1"].args)
  /\ obs["c1"].responses = <<"disk full">> /\ Rejected("c1")
  /\ Returned("c2") /\ Registered(frame["c2"].args)
  /\ Immune(frame["c2"].args) /\ obs["c2"].responses = << >>
  /\ HandlerInvoked("c2") /\ frame["c2"].result

(* ============================== C4 ===================================== *)

\* C4: after dispatch_command has returned, on each of its exit paths, the
\* session's current_command is NULL, its perf_sample is NULL and the
\* reference taken on the argument array at entry has been dropped.
C4_ReleasedOnEveryExit ==
  \A s \in Sessions :
    Returned(s) => /\ client[s].current_command = NULL
                   /\ client[s].perf_sample = NULL
                   /\ obs[s].refs = 0

(* ============================== C5 ===================================== *)

\* C5: the poison test comes before the owner test.  When the poison and
\* owner tests are made with poisoned_reason set on a resolved command
\* without CMD_POISON_IMMUNE, the call's one error response is the poison
\* reason, for the owner and for any other session, with or without
\* CMD_ALLOW_ANY_USER; the owner message is sent only when poisoned_reason
\* is NULL or the command is immune.
C5_PoisonBeforeOwner ==
  [][\A s \in Sessions :
       PermissionStep(s) =>
         LET def == Deref(frame[s].def) IN
         /\ (poisoned_reason # NULL /\ CMD_POISON_IMMUNE \notin def.flags)
            => /\ obs'[s].responses = <<Deref(poisoned_reason)>>
               /\ frame'[s].pc = "done"
         /\ obs'[s].responses = <<DeniedMessage(frame[s].args)>>
            => /\ poisoned_reason = NULL \/ CMD_POISON_IMMUNE \in def.flags
               /\ ~client[s].client_is_owner]_vars

\* poisoned: another user's session called a command that has neither
\* flag and got the poison reason
C5_Witness ==
  /\ poisoned_reason = Ptr("disk full")
  /\ Returned("c2") /\ ~client["c2"].client_is_owner
  /\ frame["c2"].def # NULL
  /\ Deref(frame["c2"].def).flags
       \cap {CMD_POISON_IMMUNE, CMD_ALLOW_ANY_USER} = {}
  /\ obs["c2"].responses = <<"disk full">>
  /\ Rejected("c2")

(* ============================== C6 ===================================== *)

\* C6 as stated: not poisoned (or the command immune), a dispatch by a
\* session that is not the owner of a registered command without
\* CMD_ALLOW_ANY_USER returns false with the owner message and no handler
\* invoked; a handler runs for such a session only with CMD_ALLOW_ANY_USER.
C6_Stated ==
  \A s \in Sessions :
    /\ (/\ Returned(s)
        /\ ~client[s].client_is_owner
        /\ Registered(frame[s].args)
        /\ ~AnyUser(frame[s].args)
        /\ (poisoned_reason = NULL \/ Immune(frame[s].args)))
       => /\ Rejected(s)
          /\ obs[s].responses = <<DeniedMessage(frame[s].args)>>
    /\ (HandlerInvoked(s) /\ ~client[s].client_is_owner)
       => AnyUser(frame[s].args)

\* C6, amended: the same for a registered command that passed lookup (the
\* mode is 0 or the flags have a bit of the mode).
C6_NonOwnerDenied ==
  \A s \in Sessions :
    /\ (/\ Returned(s)
        /\ ~client[s].client_is_owner
        /\ Registered(frame[s].args)
        /\ ModeAllows(frame[s].args, frame[s].mode)
        /\ ~AnyUser(frame[s].args)
        /\ (poisoned_reason = NULL \/ Immune(frame[s].args)))
       => /\ Rejected(s)
          /\ obs[s].responses = <<DeniedMessage(frame[s].args)>>
    /\ (HandlerInvoked(s) /\ ~client[s].client_is_owner)
       => AnyUser(frame[s].args)

\* not poisoned: another user's session was refused a command without
\* CMD_ALLOW_ANY_USER
C6_Witness ==
  /\ poisoned_reason = NULL
  /\ Returned("c2") /\ Registered(frame["c2"].args)
  /\ ~AnyUser(frame["c2"].args)
  /\ obs["c2"].responses = <<DeniedMessage(frame["c2"].args)>>
  /\ Rejected("c2")

(* ============================== C7 ===================================== *)

\* C7: a dispatch of an empty array, or of an array whose element 0 is not
\* a string, never has a handler invoked and, once lookup has answered, has
\* sent exactly one error response, the malformed command message, with
\* false as the result; for every mode, 0 included, and whatever
\* poisoned_reason and the session's owner flag are.
C7_MalformedRejected ==
  \A s \in Sessions :
    (frame[s].pc # "idle" /\ Malformed(frame[s].args))
    => /\ ~HandlerInvoked(s)
       /\ frame[s].pc \in {"Lookup", "done", "returned"}
       /\ PastChecks(s) =>
            /\ Rejected(s)
            /\ Len(obs[s].responses) = 1
            /\ obs[s].responses[1] \in MalformedMessages
            /\ (frame[s].args = << >>) =>
                 obs[s].responses[1] =
                   "invalid command (expected an array with some elements!)"

\* poisoned: another user's session sent an empty array with mode 0, the
\* owner's an array that starts with a number in a strict mode
C7_Witness ==
  /\ poisoned_reason # NULL
  /\ Returned("c2") /\ frame["c2"].args = << >> /\ frame["c2"].mode = {}
  /\ Len(obs["c2"].responses) = 1
  /\ Returned("c1") /\ frame["c1"].args # << >>
  /\ Malformed(frame["c1"].args) /\ frame["c1"].mode # {}
  /\ Len(obs["c1"].responses) = 1

(* ============================== C8 ===================================== *)

\* C8: with a registered command and a mode other than 0, a call is past
\* lookup (it holds a definition) only if the definition's flags have a bit
\* of the mode; otherwise the call, once lookup has answered, has sent the
\* mode message as its one error response, holds no definition, invoked no
\* handler and has false as its result, whatever poisoned_reason, the
\* session's owner flag and the command's other flags are: the rejection
\* comes before the poison and owner tests.
C8_ModeViolation ==
  \A s \in Sessions :
    /\ (frame[s].def # NULL /\ frame[s].mode # {})
       => /\ Registered(frame[s].args)
          /\ RegisteredDef(frame[s].args).flags \cap frame[s].mode # {}
    /\ (/\ frame[s].pc # "idle"
        /\ Registered(frame[s].args)
        /\ frame[s].mode # {}
        /\ RegisteredDef(frame[s].args).flags \cap frame[s].mode = {})
       => /\ frame[s].pc \in {"Lookup", "done", "returned"}
          /\ frame[s].def = NULL
          /\ PastChecks(s) =>
               /\ obs[s].responses = <<ModeMessage(frame[s].args)>>
               /\ Rejected(s)

\* poisoned: another user's session called, in a mode the command lacks, a
\* command that has neither CMD_POISON_IMMUNE nor CMD_ALLOW_ANY_USER, and
\* got the mode message
C8_Witness ==
  /\ poisoned_reason # NULL
  /\ Returned("c2") /\ Registered(frame["c2"].args)
  /\ frame["c2"].mode # {}
  /\ ~ModeAllows(frame["c2"].args, frame["c2"].mode)
  /\ ~Immune(frame["c2"].args) /\ ~AnyUser(frame["c2"].args)
  /\ obs["c2"].responses = <<ModeMessage(frame["c2"].args)>>

(* ============================== C9 ===================================== *)

\* C9: no dispatch_command call ends the process: the process never
\* faults, and it has exited only if preprocess_command made it exit.
C9_DispatchNeverAborts ==
  /\ process # "crashed"
  /\ process = "exited" => (cli # NULL /\ Deref(cli).exited)

(* ============================== C10 ==================================== *)

\* the validator was called and left an error message
ValidatorError(call) ==
  call.validated # NULL /\ Deref(call.validated) # NULL

\* C10 as stated: preprocess_command ends the process (error envelope
\* written) only when the validator of the command produced an error
\* message; for every other array it returns and writes nothing.
C10_Stated ==
  cli # NULL =>
    LET call == Deref(cli) IN
    /\ call.exited <=> ValidatorError(call)
    /\ call.exited => process = "exited" /\ Len(stdout) = 1
    /\ ~call.exited => process = "running" /\ stdout = << >>

\* C10, amended: preprocess_command ends the process, after writing one
\* error envelope, exactly when the array is malformed (empty, or element 0
\* not a string) or the validator of the command produced an error message;
\* the envelope carries that message.  For every other array (unknown
\* name, command without a validator, validator without complaint) it
\* returns and writes nothing.  The validator is called exactly when the
\* name is registered with a validator: the command's flags,
\* poisoned_reason and the sessions play no part.
C10_PreprocessExit ==
  cli # NULL =>
    LET call == Deref(cli) IN
    /\ call.exited <=> (Malformed(call.args) \/ ValidatorError(call))
    /\ call.validated # NULL
         <=> /\ ~Malformed(call.args)
             /\ CommandName(call.args) \in DOMAIN Deref(call.funcs)
             /\ Deref(call.funcs)[CommandName(call.args)].cli_validate
    /\ call.exited =>
         /\ process = "exited"
         /\ Len(stdout) = 1
         /\ stdout[1].cli_validated
         /\ IF Malformed(call.args)
            THEN stdout[1].error \in MalformedMessages
            ELSE stdout[1].error = Deref(Deref(call.validated))
    /\ ~call.exited => process = "running" /\ stdout = << >>

\* poisoned: the validator of a command rejected the array and the process
\* exited
C10_Witness ==
  /\ cli # NULL
  /\ Deref(cli).exited
  /\ ValidatorError(Deref(cli))
  /\ poisoned_reason # NULL
  /\ process = "exited"
  /\ stdout = <<[error |-> "wrong number of arguments",
                 version |-> "PACKAGE_VERSION", cli_validated |-> TRUE]>>

(* ============================== C11 ==================================== *)

CommandNames == { def.name : def \in CommandDefs }
RegistrationsOf(name) ==
  { i \in DOMAIN history :
      history[i].op = "command" /\ history[i].name = name }
Latest(regs) == CHOOSE i \in regs : \A j \in regs : j <= i

\* C11: after any sequence of register calls, every registered name resolves
\* by lookup (in mode 0 and in every mode its flags allow) to the definition
\* of the most recent register call for that name, with no error message
\* and the process running; a name never registered has no entry, so that no
\* call changed the entry of a name other than its own.
C11_LastWriteWins ==
  /\ process = "running"
  /\ \A name \in CommandNames :
       LET regs == RegistrationsOf(name) IN
       IF regs = {}
       THEN command_funcs = NULL \/ name \notin DOMAIN Deref(command_funcs)
       ELSE LET last == history[Latest(regs)].def IN
            /\ command_funcs # NULL
            /\ \A mode \in Modes :
                 (mode = {} \/ Deref(last).flags \cap mode # {}) =>
                   lookup(Deref(command_funcs), <<JString(name)>>, mode)
                     = [def |-> last, errmsg |-> NULL]

\* find was registered, then another command, then find again with another
\* definition
C11_Witness ==
  \E i, j, k \in DOMAIN history :
    /\ i < j /\ j < k
    /\ history[i].op = "command" /\ history[k].op = "command"
    /\ history[i].name = history[k].name
    /\ history[i].def # history[k].def
    /\ history[j].op = "command" /\ history[j].name # history[i].name

(* ============================== C12 ==================================== *)

\* C12: in every reachable state the capability cmd-<name> is supported if
\* and only if a command named <name> is in the command table, whatever
\* commands and capabilities were registered before.
C12_CapabilityIffCommand ==
  capabilities # NULL =>
    \A name \in CommandNames \cup {"trigger"} :
      w_capability_supported(capabilities, "cmd-" \o name)
        <=> (command_funcs # NULL /\ name \in DOMAIN Deref(command_funcs))

(* ============================== C13 ==================================== *)

\* C13: once poisoned_reason holds a reason it holds the same reason in
\* every later state; its only change is from NULL to a reason, and a step
\* that makes this change is no step of registration, preprocess_command or
\* dispatch_command (it leaves all they write unchanged).
C13_PoisonMonotonic ==
  [][/\ poisoned_reason # NULL => poisoned_reason' = poisoned_reason
     /\ poisoned_reason' # poisoned_reason =>
          /\ poisoned_reason = NULL
          /\ poisoned_reason' # NULL
          /\ UNCHANGED <<command_funcs, capabilities, process, stdout,
                         client, frame, obs, cli>>]_vars

\* the reason is still held after one call was rejected for it and another
\* call ran a poison-immune command to its end
C13_Witness ==
  /\ poisoned_reason # NULL
  /\ \E s, t \in Sessions :
       /\ Returned(s) /\ obs[s].responses = <<Deref(poisoned_reason)>>
       /\ Returned(t) /\ HandlerInvoked(t) /\ Immune(frame[t].args)

(* ============================== C14 ==================================== *)

\* C14: the poison and owner tests and the handler call are reached only
\* with a resolved definition and a mode other than 0; a call made with
\* mode 0 never invokes a handler.
C14_ChecksOnlyInStrictMode ==
  \A s \in Sessions :
    /\ frame[s].pc \in {"PermissionCheck", "Execute", "handler"} =>
         frame[s].def # NULL /\ frame[s].mode # {}
    /\ (frame[s].pc # "idle" /\ frame[s].mode = {}) => ~HandlerInvoked(s)

(* ============================== C15 ==================================== *)

\* C15: a call that rejected its command sent exactly one error response,
\* to its own session; a call whose handler ran sent none, and a call that
\* is still before its tests sent none: what a session was sent depends on
\* its own call only.
C15_OneResponsePerRejection ==
  \A s \in Sessions :
    /\ frame[s].pc \in {"idle", "Lookup", "PermissionCheck", "Execute",
                        "handler"} => obs[s].responses = << >>
    /\ HandlerInvoked(s) => obs[s].responses = << >>
    /\ (PastChecks(s) /\ ~HandlerInvoked(s)) =>
         Len(obs[s].responses) = 1 /\ ~frame[s].result
    /\ (Returned(s) /\ ~frame[s].result) => Len(obs[s].responses) = 1

\* one session's call was rejected with one response while the other
\* session's handler is running and that session was sent nothing
C15_Witness ==
  \E s, t \in Sessions :
    /\ Returned(s) /\ ~frame[s].result /\ Len(obs[s].responses) = 1
    /\ frame[t].pc = "handler" /\ obs[t].responses = << >>

(* ============================== C16 ==================================== *)

\* C16: a call that executes its command calls the function of the
\* definition registered under element 0 exactly once, with its own session
\* and the whole argument array; at the call and until the handler returns
\* client->current_command is that array and client->perf_sample is set;
\* the call has returned only once the handler has.
C16_HandlerInvocation ==
  \A s \in Sessions :
    /\ Len(obs[s].invoked) <= 1
    /\ frame[s].pc \in {"Lookup", "PermissionCheck", "Execute"} =>
         ~HandlerInvoked(s)
    /\ (frame[s].pc \in {"handler"} \/ frame[s].result) =>
         Len(obs[s].invoked) = 1
    /\ HandlerInvoked(s) =>
         LET call == obs[s].invoked[1] IN
         /\ Registered(frame[s].args)
         /\ call.func = RegisteredDef(frame[s].args).func
         /\ call.client = s
         /\ call.args = frame[s].args
         /\ call.current_command = Ptr(frame[s].args)
         /\ call.perf_sample # NULL
    /\ frame[s].pc = "handler" =>
         /\ client[s].current_command = Ptr(frame[s].args)
         /\ client[s].perf_sample # NULL
         /\ obs[s].finished = NULL
    /\ (Returned(s) /\ HandlerInvoked(s)) => obs[s].finished # NULL

\* the handler of find is running with ["find", "/tmp"], and another call
\* has returned after its handler
C16_Witness ==
  \E s, t \in Sessions :
    /\ frame[s].pc = "handler"
    /\ frame[s].args = <<JString("find"), JString("/tmp")>>
    /\ Returned(t) /\ HandlerInvoked(t)

(* ============================== C17 ==================================== *)

NotImmune(s) == CMD_POISON_IMMUNE \notin Deref(frame[s].def).flags

\* C17: a call goes from its tests to the handler of a command without
\* CMD_POISON_IMMUNE only in a state where poisoned_reason is NULL, and
\* poisoned_reason once set stays set: a call begun after the poisoning
\* makes its tests after it and does not reach the handler.  The poisoning
\* step leaves every call where it is, a running handler can always return,
\* and the call's next step after the handler was called is the handler's
\* return, with the result true and no response from dispatch_command.
C17_PoisonTiming ==
  /\ [](\A s \in Sessions :
          (frame[s].pc = "handler" /\ process = "running") =>
            ENABLED HandlerReturn(s, FALSE))
  /\ [][\A s \in Sessions :
          /\ (PermissionStep(s) /\ frame'[s].pc = "Execute" /\ NotImmune(s))
               => poisoned_reason = NULL
          /\ poisoned_reason # NULL => poisoned_reason' # NULL
          /\ poisoned_reason' # poisoned_reason =>
               frame' = frame /\ obs' = obs /\ client' = client
          /\ (frame[s].pc = "Execute" /\ frame'[s] # frame[s]) =>
               frame'[s].pc = "handler" /\ HandlerInvoked(s)'
          /\ (frame[s].pc = "handler" /\ frame'[s] # frame[s]) =>
               /\ frame'[s].pc = "done"
               /\ frame'[s].result
               /\ obs'[s].finished # NULL
               /\ obs'[s].responses = << >>]_vars

\* the handler of a command without CMD_POISON_IMMUNE has returned in a
\* poisoned process, while the other session's call of the same kind was
\* rejected with the reason
C17_Witness ==
  \E s, t \in Sessions :
    /\ poisoned_reason # NULL
    /\ frame[s].pc = "done" /\ HandlerInvoked(s) /\ NotImmune(s)
    /\ Returned(t) /\ ~HandlerInvoked(t)
    /\ obs[t].responses = <<Deref(poisoned_reason)>>

(* ============================== C18 ==================================== *)

\* C18: while one session's handler is running, every step of another
\* session's call stays possible: a new call, lookup, the tests, the
\* handler call, the handler's return and the code under done; and a step
\* changes the client fields, the call and the record of one session at
\* most, the session whose call it is.
C18_SessionIsolation ==
  /\ [](\A s, t \in Sessions :
          (s # t /\ frame[s].pc = "handler" /\ process = "running") =>
            /\ (frame[t].pc \in {"idle", "returned"} /\ TotalCalls < MaxCalls)
                 => \A args \in ArgArrays, mode \in Modes :
                      ENABLED DispatchStart(t, args, mode)
            /\ frame[t].pc = "Lookup" => ENABLED Lookup(t)
            /\ frame[t].pc = "PermissionCheck" => ENABLED Permission(t)
            /\ frame[t].pc = "Execute" => ENABLED Execute(t)
            /\ frame[t].pc = "handler" => ENABLED HandlerReturn(t, TRUE)
            /\ frame[t].pc = "done" => ENABLED Done(t))
  /\ [][\A s, t \in Sessions :
          (s # t /\ (frame'[s] # frame[s] \/ client'[s] # client[s]
                     \/ obs'[s] # obs[s]))
            => (frame'[t] = frame[t] /\ client'[t] = client[t]
                /\ obs'[t] = obs[t])]_vars

\* both sessions' handlers are running at once
C18_Witness ==
  /\ \A s \in Sessions : frame[s].pc = "handler"
  /\ process = "running"

(* ============================== C19 ==================================== *)

\* C19: after the handler returned, the log holds one sample record of the
\* call, with the call's argument array as its metadata, if and only if
\* sample.finish() found the time over the threshold; otherwise it holds
\* none.  In both cases the handler was called and the result is true.
C19_SlowSampleLogged ==
  \A s \in Sessions :
    /\ obs[s].finished = NULL => obs[s].logged = << >>
    /\ obs[s].finished # NULL =>
         /\ PastChecks(s) /\ HandlerInvoked(s) /\ frame[s].result
         /\ IF Deref(obs[s].finished)
            THEN obs[s].logged =
                   <<[name |-> SampleName(Deref(frame[s].def)),
                      args |-> frame[s].args]>>
            ELSE obs[s].logged = << >>

\* one call's handler was over the threshold and its sample is logged, the
\* other's was under it and nothing is logged; both returned true
C19_Witness ==
  \E s, t \in Sessions :
    /\ Returned(s) /\ obs[s].finished = Ptr(TRUE) /\ Len(obs[s].logged) = 1
    /\ Returned(t) /\ obs[t].finished = Ptr(FALSE) /\ obs[t].logged = << >>
    /\ frame[s].result /\ frame[t].result

(* ============================== C20 ==================================== *)

\* a before b in the lexicographic order of byte strings
LexLess(a, b) ==
  \E k \in 1 .. (Len(a) + 1) :
    /\ \A i \in 1 .. (k - 1) : i <= Len(b) /\ a[i] = b[i]
    /\ IF k = Len(a) + 1 THEN Len(b) >= k
       ELSE k <= Len(b) /\ a[k] < b[k]

\* C20: the printed command list holds every name of the command table it
\* was printed from exactly once, in strictly ascending lexicographic
\* order, whatever the order of registration and of the table's iteration.
C20_SortedListing ==
  help # NULL =>
    LET lines == Deref(help).lines
        table == Deref(Deref(help).funcs)
    IN /\ Len(lines) = Cardinality(DOMAIN table)
       /\ { lines[i] : i \in DOMAIN lines } = DOMAIN table
       /\ \A i, j \in DOMAIN lines :
            i < j => LexLess(Bytes(lines[i]), Bytes(lines[j]))

\* three commands registered in descending order of name and the table
\* walked in descending order, the list printed ascending
C20_Witness ==
  /\ help # NULL
  /\ Len(history) = 3
  /\ \A i \in DOMAIN history : history[i].op = "command"
  /\ \A i, j \in DOMAIN history :
       i < j => LexLess(Bytes(history[j].name), Bytes(history[i].name))
  /\ Len(Deref(help).walked) = 3
  /\ \A i, j \in DOMAIN Deref(help).walked :
       i < j => LexLess(Bytes(Deref(help).walked[j]),
                        Bytes(Deref(help).walked[i]))
  /\ Deref(help).lines = <<"find", "get-pid", "shutdown-server">>

====
